---- MODULE Spec2Model ----
(***************************************************************************)
(* Model of cmd/appregistry-server/main.go: the source-specifier           *)
(* resolution (handleSourceFlag) and the bootstrap sequence of runCmdFunc  *)
(* as driven by main.  One action per statement of runCmdFunc that can     *)
(* fail or that calls a collaborator.                                      *)
(***************************************************************************)
EXTENDS Naturals, Sequences, FiniteSets

\* Longest --sources / --registry list that is enumerated.
MaxLen == 2

\* Values of the --sources flag: OperatorSource objects {namespace}/{name}.
LegacyNames == {"ns/a", "ns/b"}

\* Values of the --registry flag: {base url}|{quay namespace}|{secret}.
ModernDescs == {"url|q|sec", "url2|q|"}

\* Values of the --packages flag (default "").
PackageFilters == {"", "etcd,prometheus"}

RECURSIVE SeqsUpTo(_, _)
SeqsUpTo(S, n) ==
    IF n = 0 THEN {<<>>}
    ELSE LET shorter == SeqsUpTo(S, n - 1)
         IN  shorter \cup {Append(s, x) : s \in {t \in shorter : Len(t) = n - 1}, x \in S}

Range(s) == {s[i] : i \in 1..Len(s)}

VARIABLES
    debugFlag,      \* --debug
    sourcesFlag,    \* --sources, as parsed by the flag set
    registryFlag,   \* --registry, as parsed by the flag set
    packagesFlag,   \* --packages
    pc,             \* next statement of main / runCmdFunc
    logLevel,       \* logrus level
    hooksInstalled, \* log.AddDefaultWriterHooks has returned nil
    flagsRead,      \* names of the flags fetched with cmd.Flags().GetX, in order
    readErrs,       \* flags whose fetch returned an error
    trace,          \* steps executed so far, in order
    sources,        \* local `sources` of runCmdFunc (specifiers of handleSourceFlag)
    legacy,         \* local `legacy` of runCmdFunc
    packages,       \* local `packages` of runCmdFunc
    newLoaderCalls, \* `legacy` argument of each appregistry.NewLoader call
    loadCalls,      \* arguments of each loader.Load call
    store,          \* stores returned by a successful loader.Load
    lis,            \* number of listeners bound by net.Listen
    servers,        \* number of grpc servers created
    registered,     \* services registered on the server, in order
    reflection,     \* reflection.Register(s) done
    failedStep,     \* the step whose error ended the run
    handledAt,      \* where that error was turned into termination
    termLog,        \* lines written to the termination-log path
    exit            \* "none" while running, else how the process ended

vars == <<debugFlag, sourcesFlag, registryFlag, packagesFlag, pc, logLevel,
          hooksInstalled, flagsRead, readErrs, trace, sources, legacy, packages,
          newLoaderCalls, loadCalls, store, lis, servers, registered,
          reflection, failedStep, handledAt, termLog, exit>>

flagVars == <<debugFlag, sourcesFlag, registryFlag, packagesFlag>>
resolveVars == <<sources, legacy>>
loaderVars == <<newLoaderCalls, loadCalls, store>>
serverVars == <<lis, servers, registered, reflection>>

Init ==
    /\ debugFlag \in BOOLEAN
    /\ sourcesFlag \in SeqsUpTo(LegacyNames, MaxLen)
    /\ registryFlag \in SeqsUpTo(ModernDescs, MaxLen)
    /\ packagesFlag \in PackageFilters
    /\ pc = "Execute"
    /\ logLevel = "info"
    /\ hooksInstalled = FALSE
    /\ flagsRead = <<>>
    /\ readErrs = {}
    /\ trace = <<>>
    /\ sources = <<>>
    /\ legacy = FALSE
    /\ packages = ""
    /\ newLoaderCalls = <<>>
    /\ loadCalls = <<>>
    /\ store = <<>>
    /\ lis = 0
    /\ servers = 0
    /\ registered = <<>>
    /\ reflection = FALSE
    /\ failedStep = "none"
    /\ handledAt = "none"
    /\ termLog = <<>>
    /\ exit = "none"

\* The termination-log writer hook installed by log.AddDefaultWriterHooks:
\* once installed, an entry logged at a terminating level is written to the
\* termination-log path.
TerminationLogHook(installed, level, log, line) ==
    IF installed /\ level \in {"panic", "fatal"} THEN Append(log, line) ELSE log

\* logger.Fatalf at the call site: log at fatal level, then os.Exit(1).
Fatalf(step) ==
    /\ termLog' = TerminationLogHook(hooksInstalled, "fatal", termLog, step)
    /\ failedStep' = step
    /\ handledAt' = "callsite"
    /\ exit' = "fatal"
    /\ pc' = "Terminated"

\* Variant: main drops the error returned by rootCmd.Execute.
ReturnErr_Swallowed(step) ==
    /\ termLog' = termLog
    /\ failedStep' = step
    /\ handledAt' = "main"
    /\ exit' = "success"
    /\ pc' = "Terminated"

\* `return err` in runCmdFunc: rootCmd.Execute returns the error to main,
\* which calls logrus.Panic: log at panic level, then panic (exit status 2).
ReturnErr(step) ==
    /\ termLog' = TerminationLogHook(hooksInstalled, "panic", termLog, step)
    /\ failedStep' = step
    /\ handledAt' = "main"
    /\ exit' = "panic"
    /\ pc' = "Terminated"

\* The step runs to its next statement without error.
Continue(next) ==
    /\ pc' = next
    /\ UNCHANGED <<failedStep, handledAt, termLog, exit>>

\* rootCmd.Execute: PreRunE, then RunE = runCmdFunc.
Execute ==
    /\ pc = "Execute"
    /\ trace' = Append(trace, "Execute")
    /\ flagsRead' = Append(flagsRead, "debug")
    /\ logLevel' = IF debugFlag THEN "debug" ELSE logLevel
    /\ Continue("GetTerminationLog")
    /\ UNCHANGED <<flagVars, readErrs, hooksInstalled, resolveVars, packages, loaderVars, serverVars>>

\* A cmd.Flags().GetString step of runCmdFunc.
GetFlag(step, flag, next) ==
    /\ pc = step
    /\ trace' = Append(trace, step)
    /\ flagsRead' = Append(flagsRead, flag)
    /\ \E err \in BOOLEAN :
         /\ readErrs' = IF err THEN readErrs \cup {flag} ELSE readErrs
         /\ IF err THEN ReturnErr(step) ELSE Continue(next)

GetTerminationLog ==
    /\ GetFlag("GetTerminationLog", "termination-log", "AddDefaultWriterHooks")
    /\ UNCHANGED <<flagVars, logLevel, hooksInstalled, resolveVars, packages, loaderVars, serverVars>>

AddDefaultWriterHooks ==
    /\ pc = "AddDefaultWriterHooks"
    /\ trace' = Append(trace, "AddDefaultWriterHooks")
    /\ \E err \in BOOLEAN :
         IF err THEN hooksInstalled' = hooksInstalled /\ ReturnErr("AddDefaultWriterHooks")
         ELSE hooksInstalled' = TRUE /\ Continue("GetKubeconfig")
    /\ UNCHANGED <<flagVars, logLevel, flagsRead, readErrs, resolveVars, packages, loaderVars, serverVars>>

GetKubeconfig ==
    /\ GetFlag("GetKubeconfig", "kubeconfig", "GetPort")
    /\ UNCHANGED <<flagVars, logLevel, hooksInstalled, resolveVars, packages, loaderVars, serverVars>>

GetPort ==
    /\ GetFlag("GetPort", "port", "handleSourceFlag")
    /\ UNCHANGED <<flagVars, logLevel, hooksInstalled, resolveVars, packages, loaderVars, serverVars>>

\* Variant: the --registry list takes precedence when it is non-empty.
handleSourceFlag_ModernFirst(operatorSourceCRNames, errSources, remoteSources, errRegistry) ==
    IF errSources
      THEN [specifiers |-> <<>>, legacy |-> FALSE, err |-> TRUE, reads |-> <<"sources">>]
    ELSE IF errRegistry
      THEN [specifiers |-> <<>>, legacy |-> FALSE, err |-> TRUE,
            reads |-> <<"sources", "registry">>]
    ELSE IF Len(remoteSources) > 0
      THEN [specifiers |-> remoteSources, legacy |-> FALSE, err |-> FALSE,
            reads |-> <<"sources", "registry">>]
    ELSE [specifiers |-> operatorSourceCRNames, legacy |-> Len(operatorSourceCRNames) > 0,
          err |-> FALSE, reads |-> <<"sources", "registry">>]

\* Variant: the final `specifiers = remoteSources` is missing.
handleSourceFlag_DropsModern(operatorSourceCRNames, errSources, remoteSources, errRegistry) ==
    IF errSources
      THEN [specifiers |-> <<>>, legacy |-> FALSE, err |-> TRUE, reads |-> <<"sources">>]
    ELSE IF Len(operatorSourceCRNames) > 0
      THEN [specifiers |-> operatorSourceCRNames, legacy |-> TRUE, err |-> FALSE,
            reads |-> <<"sources">>]
    ELSE IF errRegistry
      THEN [specifiers |-> <<>>, legacy |-> FALSE, err |-> TRUE,
            reads |-> <<"sources", "registry">>]
    ELSE [specifiers |-> <<>>, legacy |-> FALSE, err |-> FALSE,
          reads |-> <<"sources", "registry">>]

\* Variant: in legacy mode the --registry entries are appended to the result.
handleSourceFlag_Concat(operatorSourceCRNames, errSources, remoteSources, errRegistry) ==
    IF errSources
      THEN [specifiers |-> <<>>, legacy |-> FALSE, err |-> TRUE, reads |-> <<"sources">>]
    ELSE IF errRegistry
      THEN [specifiers |-> <<>>, legacy |-> FALSE, err |-> TRUE,
            reads |-> <<"sources", "registry">>]
    ELSE [specifiers |-> operatorSourceCRNames \o remoteSources,
          legacy |-> Len(operatorSourceCRNames) > 0, err |-> FALSE,
          reads |-> <<"sources", "registry">>]

\* handleSourceFlag over the outcome of the two flag reads: the parsed list
\* and whether GetStringSlice returned an error.  The result has the named
\* results specifiers, legacy, err, and the flags the call fetched.
handleSourceFlag(operatorSourceCRNames, errSources, remoteSources, errRegistry) ==
    IF errSources
      THEN [specifiers |-> <<>>, legacy |-> FALSE, err |-> TRUE, reads |-> <<"sources">>]
    ELSE IF Len(operatorSourceCRNames) > 0
      THEN [specifiers |-> operatorSourceCRNames, legacy |-> TRUE, err |-> FALSE,
            reads |-> <<"sources">>]
    ELSE IF errRegistry
      THEN [specifiers |-> <<>>, legacy |-> FALSE, err |-> TRUE,
            reads |-> <<"sources", "registry">>]
    ELSE [specifiers |-> remoteSources, legacy |-> FALSE, err |-> FALSE,
          reads |-> <<"sources", "registry">>]

\* sources, legacy, err := handleSourceFlag(cmd)
HandleSourceFlag ==
    /\ pc = "handleSourceFlag"
    /\ trace' = Append(trace, "handleSourceFlag")
    /\ \E errSources \in BOOLEAN, errRegistry \in BOOLEAN :
         LET r == handleSourceFlag(sourcesFlag, errSources, registryFlag, errRegistry)
         IN  /\ sources' = r.specifiers
             /\ legacy' = r.legacy
             /\ flagsRead' = flagsRead \o r.reads
             /\ readErrs' = readErrs \cup
                    {f \in Range(r.reads) : \/ f = "sources" /\ errSources
                                            \/ f = "registry" /\ errRegistry}
             /\ IF r.err THEN ReturnErr("handleSourceFlag") ELSE Continue("GetPackages")
    /\ UNCHANGED <<flagVars, logLevel, hooksInstalled, packages, loaderVars, serverVars>>

GetPackages ==
    /\ pc = "GetPackages"
    /\ trace' = Append(trace, "GetPackages")
    /\ flagsRead' = Append(flagsRead, "packages")
    /\ \E err \in BOOLEAN :
         /\ readErrs' = IF err THEN readErrs \cup {"packages"} ELSE readErrs
         /\ IF err THEN packages' = "" /\ ReturnErr("GetPackages")
            ELSE packages' = packagesFlag /\ Continue("GetDatabase")
    /\ UNCHANGED <<flagVars, logLevel, hooksInstalled, resolveVars, loaderVars, serverVars>>

\* Variant: the sources are resolved again after the database flag is read.
GetDatabase_ReResolves ==
    /\ GetFlag("GetDatabase", "database", "handleSourceFlag")
    /\ UNCHANGED <<flagVars, logLevel, hooksInstalled, resolveVars, packages, loaderVars, serverVars>>

GetDatabase ==
    /\ GetFlag("GetDatabase", "database", "NewLoader")
    /\ UNCHANGED <<flagVars, logLevel, hooksInstalled, resolveVars, packages, loaderVars, serverVars>>

\* Variant: the listener is opened right after the loader is constructed.
NewLoader_SkipsLoad ==
    /\ pc = "NewLoader"
    /\ trace' = Append(trace, "NewLoader")
    /\ newLoaderCalls' = Append(newLoaderCalls, legacy)
    /\ \E err \in BOOLEAN : IF err THEN Fatalf("NewLoader") ELSE Continue("Listen")
    /\ UNCHANGED <<flagVars, logLevel, hooksInstalled, flagsRead, readErrs, resolveVars, packages,
                   loadCalls, store, serverVars>>

\* loader, err := appregistry.NewLoader(kubeconfig, logger, legacy)
NewLoader ==
    /\ pc = "NewLoader"
    /\ trace' = Append(trace, "NewLoader")
    /\ newLoaderCalls' = Append(newLoaderCalls, legacy)
    /\ \E err \in BOOLEAN : IF err THEN Fatalf("NewLoader") ELSE Continue("Load")
    /\ UNCHANGED <<flagVars, logLevel, hooksInstalled, flagsRead, readErrs, resolveVars, packages,
                   loadCalls, store, serverVars>>

\* Variant: a load error is recorded but the run goes on to listen.
Load_ErrorNotFatal ==
    /\ pc = "Load"
    /\ trace' = Append(trace, "Load")
    /\ loadCalls' = Append(loadCalls, [specifiers |-> sources, packages |-> packages])
    /\ \E err \in BOOLEAN :
         IF err THEN /\ store' = store
                     /\ failedStep' = "Load"
                     /\ handledAt' = "callsite"
                     /\ termLog' = termLog
                     /\ exit' = exit
                     /\ pc' = "Listen"
         ELSE /\ store' = Append(store, [specifiers |-> sources, packages |-> packages,
                                         legacy |-> newLoaderCalls[Len(newLoaderCalls)]])
              /\ Continue("Listen")
    /\ UNCHANGED <<flagVars, logLevel, hooksInstalled, flagsRead, readErrs, resolveVars, packages,
                   newLoaderCalls, serverVars>>

\* Variant: a failed load is attempted again.
Load_Retry ==
    /\ pc = "Load"
    /\ trace' = Append(trace, "Load")
    /\ loadCalls' = Append(loadCalls, [specifiers |-> sources, packages |-> packages])
    /\ \E err \in BOOLEAN :
         IF err THEN store' = store /\ Continue("Load")
         ELSE /\ store' = Append(store, [specifiers |-> sources, packages |-> packages,
                                         legacy |-> newLoaderCalls[Len(newLoaderCalls)]])
              /\ Continue("Listen")
    /\ UNCHANGED <<flagVars, logLevel, hooksInstalled, flagsRead, readErrs, resolveVars, packages,
                   newLoaderCalls, serverVars>>

\* store, err := loader.Load(dbName, sources, packages)
Load ==
    /\ pc = "Load"
    /\ trace' = Append(trace, "Load")
    /\ loadCalls' = Append(loadCalls, [specifiers |-> sources, packages |-> packages])
    /\ \E err \in BOOLEAN :
         IF err THEN store' = store /\ Fatalf("Load")
         ELSE /\ store' = Append(store, [specifiers |-> sources, packages |-> packages,
                                         legacy |-> newLoaderCalls[Len(newLoaderCalls)]])
              /\ Continue("Listen")
    /\ UNCHANGED <<flagVars, logLevel, hooksInstalled, flagsRead, readErrs, resolveVars, packages,
                   newLoaderCalls, serverVars>>

\* lis, err := net.Listen("tcp", ":"+port)
Listen ==
    /\ pc = "Listen"
    /\ trace' = Append(trace, "Listen")
    /\ \E err \in BOOLEAN :
         IF err THEN lis' = lis /\ Fatalf("Listen")
         ELSE lis' = lis + 1 /\ Continue("NewServer")
    /\ UNCHANGED <<flagVars, logLevel, hooksInstalled, flagsRead, readErrs, resolveVars, packages,
                   loaderVars, servers, registered, reflection>>

\* s := grpc.NewServer()
NewServer ==
    /\ pc = "NewServer"
    /\ trace' = Append(trace, "NewServer")
    /\ servers' = servers + 1
    /\ Continue("RegisterRegistryServer")
    /\ UNCHANGED <<flagVars, logLevel, hooksInstalled, flagsRead, readErrs, resolveVars, packages,
                   loaderVars, lis, registered, reflection>>

\* Variant: the registry service is created without the loaded store.
RegisterRegistryServer_EmptyStore ==
    /\ pc = "RegisterRegistryServer"
    /\ trace' = Append(trace, "RegisterRegistryServer")
    /\ registered' = Append(registered, [service |-> "registry", backing |-> <<>>])
    /\ Continue("RegisterHealthServer")
    /\ UNCHANGED <<flagVars, logLevel, hooksInstalled, flagsRead, readErrs, resolveVars, packages,
                   loaderVars, lis, servers, reflection>>

\* api.RegisterRegistryServer(s, server.NewRegistryServer(store))
RegisterRegistryServer ==
    /\ pc = "RegisterRegistryServer"
    /\ trace' = Append(trace, "RegisterRegistryServer")
    /\ registered' = Append(registered, [service |-> "registry", backing |-> store])
    /\ Continue("RegisterHealthServer")
    /\ UNCHANGED <<flagVars, logLevel, hooksInstalled, flagsRead, readErrs, resolveVars, packages,
                   loaderVars, lis, servers, reflection>>

\* health.RegisterHealthServer(s, server.NewHealthServer())
RegisterHealthServer ==
    /\ pc = "RegisterHealthServer"
    /\ trace' = Append(trace, "RegisterHealthServer")
    /\ registered' = Append(registered, [service |-> "health", backing |-> <<>>])
    /\ Continue("ReflectionRegister")
    /\ UNCHANGED <<flagVars, logLevel, hooksInstalled, flagsRead, readErrs, resolveVars, packages,
                   loaderVars, lis, servers, reflection>>

\* reflection.Register(s)
ReflectionRegister ==
    /\ pc = "ReflectionRegister"
    /\ trace' = Append(trace, "ReflectionRegister")
    /\ reflection' = TRUE
    /\ Continue("Serve")
    /\ UNCHANGED <<flagVars, logLevel, hooksInstalled, flagsRead, readErrs, resolveVars, packages,
                   loaderVars, lis, servers, registered>>

\* logger.Info("serving registry"); s.Serve(lis) is entered and blocks.
Serve ==
    /\ pc = "Serve"
    /\ trace' = Append(trace, "Serve")
    /\ Continue("Serving")
    /\ UNCHANGED <<flagVars, logLevel, hooksInstalled, flagsRead, readErrs, resolveVars, packages,
                   loaderVars, serverVars>>

\* Variant: Serve may also return nil.
ServeResults_NilPossible == {"err", "nil"}

\* What s.Serve(lis) can return.  grpc: "Serve will return a non-nil error
\* unless Stop or GracefulStop is called"; the program calls neither.
ServeResults == {"err"}

\* s.Serve(lis) returns: a non-nil error is fatal, nil falls through to
\* `return nil`, Execute returns nil and main returns (exit status 0).
ServeReturns ==
    /\ pc = "Serving"
    /\ \E r \in ServeResults :
         IF r = "err" THEN Fatalf("Serve")
         ELSE /\ pc' = "Terminated"
              /\ exit' = "success"
              /\ UNCHANGED <<failedStep, handledAt, termLog>>
    /\ UNCHANGED <<flagVars, logLevel, hooksInstalled, flagsRead, readErrs, trace, resolveVars,
                   packages, loaderVars, serverVars>>

\* The process is ended from outside (a signal); the program installs no
\* signal handler, so this can happen at any statement.
Kill ==
    /\ pc # "Terminated"
    /\ pc' = "Terminated"
    /\ exit' = "killed"
    /\ UNCHANGED <<flagVars, logLevel, hooksInstalled, flagsRead, readErrs, trace, resolveVars,
                   packages, loaderVars, serverVars, failedStep, handledAt, termLog>>

Next ==
    \/ Execute
    \/ GetTerminationLog
    \/ AddDefaultWriterHooks
    \/ GetKubeconfig
    \/ GetPort
    \/ HandleSourceFlag
    \/ GetPackages
    \/ GetDatabase
    \/ NewLoader
    \/ Load
    \/ Listen
    \/ NewServer
    \/ RegisterRegistryServer
    \/ RegisterHealthServer
    \/ ReflectionRegister
    \/ Serve
    \/ ServeReturns
    \/ Kill

Spec == Init /\ [][Next]_vars

TypeOK ==
    /\ exit \in {"none", "success", "fatal", "panic", "killed"}
    /\ handledAt \in {"none", "callsite", "main"}
    /\ Len(termLog) <= 1

(***************************************************************************)
(* Properties                                                              *)
(***************************************************************************)

Ran(step) == step \in Range(trace)

NoDuplicates(q) == \A i, j \in 1..Len(q) : i # j => q[i] # q[j]

Pos(step) == CHOOSE i \in 1..Len(trace) : trace[i] = step

\* handleSourceFlag has been called and returned a nil error.
ResolvedOK == Ran("handleSourceFlag") /\ failedStep # "handleSourceFlag"

\* loader.Load has been called and returned a nil error.
LoadedOK == Ran("Load") /\ failedStep # "Load" /\ Len(store) = 1

\* C1: when the --sources list is non-empty, handleSourceFlag returns that
\* list unchanged with legacy = true, whatever the --registry list is, and
\* no entry of the --registry list is in the result.
C1_LegacyPrecedence ==
    (ResolvedOK /\ Len(sourcesFlag) > 0) =>
        /\ sources = sourcesFlag
        /\ legacy = TRUE
        /\ \A i \in 1..Len(sources) : sources[i] \notin Range(registryFlag)

C1_Witness ==
    /\ ResolvedOK
    /\ sourcesFlag = <<"ns/a", "ns/b">>
    /\ registryFlag = <<"url|q|sec">>
    /\ sources = <<"ns/a", "ns/b">>
    /\ legacy

\* C2: when the --sources list is empty, handleSourceFlag returns the
\* --registry list unchanged with legacy = false; it returns an error only
\* if a flag fetch did, so two empty lists give an empty list, false, nil.
C2_ModernFallback ==
    /\ (ResolvedOK /\ sourcesFlag = <<>>) => (sources = registryFlag /\ legacy = FALSE)
    /\ (Ran("handleSourceFlag") /\ readErrs \cap {"sources", "registry"} = {})
          => failedStep # "handleSourceFlag"
    /\ (Ran("handleSourceFlag") /\ readErrs \cap {"sources", "registry"} = {}
          /\ sourcesFlag = <<>> /\ registryFlag = <<>>) => (sources = <<>> /\ legacy = FALSE)

C2_Witness ==
    /\ pc = "GetPackages"
    /\ sourcesFlag = <<>>
    /\ sources = registryFlag
    /\ ~legacy

\* C3: a listener is bound, a server created or a service registered only
\* after loader.Load has returned without error.
C3_StartupOrdering ==
    (\/ lis > 0 \/ servers > 0 \/ registered # <<>> \/ reflection
     \/ Ran("Listen") \/ Ran("NewServer") \/ Ran("RegisterRegistryServer")
     \/ Ran("RegisterHealthServer") \/ Ran("ReflectionRegister") \/ Ran("Serve"))
        => (LoadedOK /\ Pos("Load") < Pos("Listen"))

C3_Witness == lis = 1 /\ servers = 1 /\ Len(registered) = 2 /\ reflection /\ LoadedOK

\* C4: a failed NewLoader means Load is never called; a failed NewLoader or
\* Load ends the process fatally with no listener, no server, no registered
\* service and no Serve.
C4_LoadFailureBlocksExposure ==
    /\ failedStep = "NewLoader" => (loadCalls = <<>> /\ ~Ran("Load"))
    /\ failedStep \in {"NewLoader", "Load"} =>
          /\ exit = "fatal" /\ pc = "Terminated"
          /\ lis = 0 /\ servers = 0 /\ registered = <<>> /\ ~reflection
          /\ ~Ran("Listen") /\ ~Ran("Serve")

C4_Witness == failedStep = "Load" /\ exit = "fatal" /\ Len(loadCalls) = 1 /\ lis = 0

\* The process has ended with a non-zero status.
ExitNonZero == pc = "Terminated" /\ exit \in {"fatal", "panic"}

\* C5 as stated: a failure at any bootstrap stage writes a line to the
\* termination-log path and ends the process with a non-zero status.
C5_Original == failedStep # "none" => (Len(termLog) >= 1 /\ ExitNonZero)

\* C5 amended: every failure ends the process with a non-zero status; a
\* failure of a step after the termination-log hooks were installed writes
\* one line to the termination-log path, a failure of reading the
\* termination-log flag or of installing the hooks writes none.
C5_TerminationLog ==
    /\ failedStep # "none" => ExitNonZero
    /\ failedStep \notin {"none", "GetTerminationLog", "AddDefaultWriterHooks"}
          => (hooksInstalled /\ termLog = <<failedStep>>)
    /\ failedStep \in {"GetTerminationLog", "AddDefaultWriterHooks"}
          => (~hooksInstalled /\ termLog = <<>>)
    /\ failedStep = "none" => termLog = <<>>

C5_Witness == failedStep = "Load" /\ hooksInstalled /\ termLog = <<"Load">> /\ exit = "fatal"

AssembledServices ==
    <<[service |-> "registry", backing |-> store], [service |-> "health", backing |-> <<>>]>>

\* C7: when Serve is invoked one server exists with exactly the registry
\* service (backed by the loaded store) and then the health service
\* registered, reflection enabled after them; nothing is registered later.
C7_ServiceAssembly ==
    /\ [](/\ servers <= 1
          /\ Len(registered) <= 2
          /\ registered = SubSeq(AssembledServices, 1, Len(registered))
          /\ Ran("Serve") =>
                /\ servers = 1
                /\ LoadedOK
                /\ registered = AssembledServices
                /\ reflection
                /\ Pos("NewServer") < Pos("RegisterRegistryServer")
                /\ Pos("RegisterRegistryServer") < Pos("RegisterHealthServer")
                /\ Pos("RegisterHealthServer") < Pos("ReflectionRegister")
                /\ Pos("ReflectionRegister") < Pos("Serve"))
    /\ [][Ran("Serve") => UNCHANGED <<servers, registered, reflection, store>>]_vars

C7_Witness == pc = "Serving" /\ registered = AssembledServices /\ servers = 1 /\ reflection

\* The stage a step belongs to, in the order Init, LogSetupDone, ConfigRead,
\* SourcesResolved, Loaded, Listening, Serving.
StageOf(step) ==
    CASE step = "Execute" -> 0
      [] step \in {"GetTerminationLog", "AddDefaultWriterHooks"} -> 1
      [] step \in {"GetKubeconfig", "GetPort", "GetPackages", "GetDatabase"} -> 2
      [] step = "handleSourceFlag" -> 3
      [] step \in {"NewLoader", "Load"} -> 4
      [] step = "Listen" -> 5
      [] OTHER -> 6

\* C8 as stated: the steps run in stage order, none twice, and no step of an
\* earlier stage (a configuration flag read) runs after a later stage
\* (source resolution) was entered.
C8_Original ==
    /\ NoDuplicates(trace)
    /\ \A i, j \in 1..Len(trace) : i < j => StageOf(trace[i]) <= StageOf(trace[j])

\* The order in which the steps are written in runCmdFunc.
FlagSteps == {"GetTerminationLog", "GetKubeconfig", "GetPort", "GetPackages", "GetDatabase"}
AfterResolution == {"GetPackages", "GetDatabase"}

AmendedStageOf(step) ==
    CASE step = "Execute" -> 0
      [] step \in {"GetTerminationLog", "AddDefaultWriterHooks"} -> 1
      [] step \in {"GetKubeconfig", "GetPort"} -> 2
      [] step = "handleSourceFlag" -> 3
      [] step \in {"GetPackages", "GetDatabase"} -> 4
      [] step \in {"NewLoader", "Load"} -> 5
      [] step = "Listen" -> 6
      [] OTHER -> 7

\* C8 amended: the stages are visited in the order Init, LogSetupDone,
\* SourcesResolved, Loaded, Listening, Serving and no step runs twice, but
\* the configuration reads straddle source resolution: kubeconfig and port
\* are read before it, packages and database after it; every flag read
\* precedes loader construction.
C8_SequentialDriver ==
    /\ NoDuplicates(trace)
    /\ \A i, j \in 1..Len(trace) : i < j => AmendedStageOf(trace[i]) <= AmendedStageOf(trace[j])
    /\ Ran("handleSourceFlag") => (Ran("GetKubeconfig") /\ Ran("GetPort") /\ hooksInstalled)
    /\ \A st \in AfterResolution : Ran(st) => ResolvedOK
    /\ Ran("NewLoader") =>
          /\ FlagSteps \subseteq Range(trace)
          /\ flagsRead \in
                {<<"debug", "termination-log", "kubeconfig", "port", "sources",
                   "packages", "database">>,
                 <<"debug", "termination-log", "kubeconfig", "port", "sources", "registry",
                   "packages", "database">>}
    /\ Ran("Listen") => LoadedOK
    /\ Ran("NewServer") => lis = 1

C8_Witness == pc = "Serving" /\ Len(trace) = 16 /\ Pos("handleSourceFlag") < Pos("GetPackages")

\* C9 as stated: every step's failure is handled the same way, at the call
\* site of the failing step, by logging and terminating; no later step runs
\* and no step is retried.
C9_Original ==
    /\ NoDuplicates(trace)
    /\ failedStep # "none" =>
          /\ handledAt = "callsite"
          /\ pc = "Terminated"
          /\ trace[Len(trace)] = failedStep

\* C9 amended: there are two failure paths.  A failed flag read,
\* termination-log setup or source resolution returns the error to main,
\* which logs it at panic level and panics; a failed loader construction,
\* load, listen or serve is logged and ends the process at the call site.
\* On both paths no later step runs and no step is attempted twice.
C9_FailFast ==
    /\ NoDuplicates(trace)
    /\ failedStep # "none" =>
          /\ pc = "Terminated"
          /\ trace[Len(trace)] = failedStep
    /\ failedStep \in {"GetTerminationLog", "AddDefaultWriterHooks", "GetKubeconfig", "GetPort",
                       "handleSourceFlag", "GetPackages", "GetDatabase"}
          => (handledAt = "main" /\ exit = "panic")
    /\ failedStep \in {"NewLoader", "Load", "Listen", "Serve"}
          => (handledAt = "callsite" /\ exit = "fatal")
    /\ failedStep = "none" => handledAt = "none"

C9_Witness == failedStep = "Listen" /\ handledAt = "callsite" /\ trace[Len(trace)] = "Listen"

\* C10: the legacy value given to NewLoader and the list given to Load are
\* the pair of one source resolution, unchanged since: legacy is true
\* exactly when --sources is non-empty and the list is the whole --sources
\* list when legacy, the whole --registry list otherwise, never a mixture.
C10_ModeConsistent ==
    /\ [](/\ Len(newLoaderCalls) <= 1 /\ Len(loadCalls) <= 1
          /\ ResolvedOK => (legacy <=> Len(sourcesFlag) > 0)
          /\ newLoaderCalls # <<>> => (ResolvedOK /\ newLoaderCalls[1] = legacy)
          /\ loadCalls # <<>> =>
                /\ newLoaderCalls # <<>>
                /\ loadCalls[1].specifiers = sources
                /\ loadCalls[1].specifiers =
                      IF newLoaderCalls[1] THEN sourcesFlag ELSE registryFlag)
    /\ [][ResolvedOK => UNCHANGED <<sources, legacy>>]_vars

C10_Witness ==
    /\ Len(loadCalls) = 1
    /\ newLoaderCalls = <<TRUE>>
    /\ Len(sourcesFlag) > 0 /\ Len(registryFlag) > 0
    /\ loadCalls[1].specifiers = sourcesFlag
====
